---- MODULE Spec2Model ----
(***************************************************************************)
(* A model of repo2prompt: repo2prompt_async_prd.py (retrying fetcher,     *)
(* rate guard, semaphore-gated concurrent tree walk, assembler) and        *)
(* repo2prompt_async.py (sequential walk, gathered leaf fetches).          *)
(*                                                                         *)
(* Strings are sequences of tokens (a token is a short literal piece of    *)
(* text); concatenation is \o.  A path is a string in which "/" is a token *)
(* of its own, so that split("/") and endswith(...) are computed.          *)
(*                                                                         *)
(* One action is one run of a task of the asyncio event loop from the      *)
(* point where it is resumed to the next point where it suspends (a        *)
(* request in flight, a sleep, a blocked semaphore, an unfinished task).   *)
(***************************************************************************)
EXTENDS Integers, Sequences, FiniteSets, TLC

VARIABLES
    program,    \* "prd" | "async" | "fetch": which entry point runs
    remote,     \* the remote service: listings, file objects, response scripts
    url,        \* the locator given to retrieve_github_repo_info
    token,      \* the credential, or None
    capacity,   \* the value the semaphore was created with
    mpc,        \* position of retrieve_github_repo_info
    fetch,      \* per task: the fetch_repo_content / fetch_rate_limit_status call
    walk,       \* per directory path: the build_directory_tree call
    sem,        \* asyncio.Semaphore: [value, waiters]; None before line 135
    doc,        \* formatted_string
    outcome,    \* how the entry point ended: "running" | "returned" | "raised"
    reqCount,   \* per path: requests the remote has received
    issued,     \* history: paths for which a contents request was sent
    emitted,    \* history: paths of the entries a tree line was written for
    result      \* what the entry point returned or raised

vars == <<program, remote, url, token, capacity, mpc, fetch, walk, sem, doc,
          outcome, reqCount, issued, emitted, result>>

None == "None"

----------------------------------------------------------------------------
(* Bounds of the model *)

MaxRetryAfter == 2      \* largest Retry-After value (seconds) the service sends
MaxCapacity == 2        \* small semaphore capacities tried besides SemaphoreLimit
MaxNest == 2            \* deepest chain of Retry-After reissues explored
MaxFaults == 8          \* longest run of transport faults before the service answers
MaxGuardSleep == 2      \* longest time to the quota reset (seconds)

(* Program constants *)

max_tries == 8          \* backoff.on_exception(..., max_tries=8)
SemaphoreLimit == 100   \* asyncio.Semaphore(100)
RateFloor == 100        \* if rate["remaining"] < 100

----------------------------------------------------------------------------
(* Strings *)

\* str.split(sep): the pieces between the separator tokens ("" gives [""])
RECURSIVE SplitFrom(_, _, _)
SplitFrom(s, sep, cur) ==
    IF s = <<>> THEN <<cur>>
    ELSE IF Head(s) = sep THEN <<cur>> \o SplitFrom(Tail(s), sep, <<>>)
    ELSE SplitFrom(Tail(s), sep, Append(cur, Head(s)))

Split(s, sep) == SplitFrom(s, sep, <<>>)

\* str.strip(ch): leading and trailing ch removed
RECURSIVE LStrip(_, _)
LStrip(s, ch) == IF s # <<>> /\ Head(s) = ch THEN LStrip(Tail(s), ch) ELSE s

RECURSIVE RStrip(_, _)
RStrip(s, ch) ==
    IF s # <<>> /\ s[Len(s)] = ch THEN RStrip(SubSeq(s, 1, Len(s) - 1), ch) ELSE s

Strip(s, ch) == RStrip(LStrip(s, ch), ch)

\* str.endswith(tuple of suffixes)
EndsWith(s, suffixes) ==
    \E suf \in suffixes :
        /\ Len(s) >= Len(suf)
        /\ SubSeq(s, Len(s) - Len(suf) + 1, Len(s)) = suf

\* "    " * n
RECURSIVE Indent(_)
Indent(n) == IF n <= 0 THEN <<>> ELSE <<"    ">> \o Indent(n - 1)

SeqToSet(s) == {s[k] : k \in 1..Len(s)}

----------------------------------------------------------------------------
(* The remote service *)

\* one row of a directory listing: {name, path, type}
Entry(parent, name, type) ==
    [name |-> name,
     path |-> IF parent = <<>> THEN name ELSE parent \o <<"/">> \o name,
     type |-> type]

File(parent, name) == Entry(parent, name, "file")
Dir(parent, name) == Entry(parent, name, "dir")

a_py == <<"a", ".py">>
b_md == <<"b", ".md">>
c_txt == <<"c", ".txt">>
ci_py == <<"ci", ".py">>
x_github == <<"x", ".github">>
readme_md == <<"README", ".md">>
sub == <<"sub">>
lib == <<"lib">>
deep == <<"deep">>
dot_github == <<".github">>

\* root = [a.py, sub/], sub = [b.md]
RepoA ==
    (<<>> :> <<File(<<>>, a_py), Dir(<<>>, sub)>>)
    @@ (sub :> <<File(sub, b_md)>>)

\* root = [sub/, a.py, b.md], sub = [b.md, c.txt]
RepoB ==
    (<<>> :> <<Dir(<<>>, sub), File(<<>>, a_py), File(<<>>, b_md)>>)
    @@ (sub :> <<File(sub, b_md), File(sub, c_txt)>>)

\* root = [lib/, sub/, c.txt, a.py], lib = [a.py, deep/], lib/deep = [b.md],
\* sub = [b.md]
RepoC ==
    (<<>> :> <<Dir(<<>>, lib), Dir(<<>>, sub), File(<<>>, c_txt), File(<<>>, a_py)>>)
    @@ (lib :> <<File(lib, a_py), Dir(lib, deep)>>)
    @@ (lib \o <<"/">> \o deep :> <<File(lib \o <<"/">> \o deep, b_md)>>)
    @@ (sub :> <<File(sub, b_md)>>)

\* root = [.github/, x.github, sub/, README.md], .github = [ci.py],
\* sub = [.github/, b.md], sub/.github = [ci.py]
RepoD ==
    (<<>> :> <<Dir(<<>>, dot_github), File(<<>>, x_github), Dir(<<>>, sub),
               File(<<>>, readme_md)>>)
    @@ (dot_github :> <<File(dot_github, ci_py)>>)
    @@ (sub :> <<Dir(sub, dot_github), File(sub, b_md)>>)
    @@ (sub \o <<"/">> \o dot_github :> <<File(sub \o <<"/">> \o dot_github, ci_py)>>)

\* an empty repository
RepoE == (<<>> :> <<>>)

Repos == {RepoA, RepoB, RepoC, RepoD, RepoE}

DirPaths(listing) == DOMAIN listing

FilePaths(listing) ==
    {e.path : e \in {e \in UNION {SeqToSet(listing[d]) : d \in DOMAIN listing} :
                        e.type = "file"}}

\* the text of a file, and the object the contents API returns for it
TextOf(path) == <<"text:">> \o path

B64Encode(text) == <<"b64(">> \o text \o <<")">>

FileObject(path, kind) ==
    CASE kind = "base64" -> [encoding |-> "base64", content |-> B64Encode(TextOf(path))]
      [] kind = "none" -> [encoding |-> "none", content |-> TextOf(path)]
      [] kind = "padding" -> [encoding |-> "base64", content |-> <<"b64(">> \o TextOf(path)]
      [] kind = "binary" -> [encoding |-> "base64", content |-> B64Encode(<<"\\xff">>)]

BodyKinds == {"base64", "none", "padding", "binary"}

\* responses: status 0 stands for a transport fault (no response at all)
R200 == [status |-> 200, retry_after |-> None]
Fault == [status |-> 0, retry_after |-> None]
Http(status) == [status |-> status, retry_after |-> None]
Limited(status, after) == [status |-> status, retry_after |-> after]

\* a script: the k-th request receives pre[k], every later one fin
Script(pre, fin) == [pre |-> pre, fin |-> fin]
Ok == Script(<<>>, R200)
NotFound == Script(<<>>, Http(404))

RECURSIVE Times(_, _)
Times(r, n) == IF n <= 0 THEN <<>> ELSE <<r>> \o Times(r, n - 1)

RateUrl == <<"https://api.github.com/rate_limit">>

Exists(rem, path) == path \in DirPaths(rem.listing) \cup FilePaths(rem.listing)

ScriptOf(rem, path) ==
    IF path \in DOMAIN rem.script THEN rem.script[path]
    ELSE IF path = RateUrl \/ Exists(rem, path) THEN Ok
    ELSE NotFound

\* the response the remote gives to its k-th request for path
Response(rem, path, k) ==
    LET s == ScriptOf(rem, path) IN IF k <= Len(s.pre) THEN s.pre[k] ELSE s.fin

\* the JSON body of a 200 for path
Body(rem, path) ==
    IF path \in DOMAIN rem.listing THEN rem.listing[path]
    ELSE IF path \in DOMAIN rem.kind THEN FileObject(path, rem.kind[path])
    ELSE FileObject(path, "base64")

----------------------------------------------------------------------------
(* Exceptions and the one-line collaborators *)

Exc(type, msg) == [type |-> type, msg |-> msg]

TransportFault == Exc("ClientError", <<"Cannot connect to host">>)
ResourceNotFound == Exc("ClientError", <<"Resource not found.">>)
RateLimitExceeded(status) ==
    Exc("ClientError",
        <<"Rate limit exceeded with status ", ToString(status),
          ". No Retry-After header provided.">>)
ResponseError(status) == Exc("ClientResponseError", <<ToString(status), ", message=">>)
InvalidLiteral(text) ==
    Exc("ValueError", <<"invalid literal for int() with base 10: ", text>>)
InvalidUrl == Exc("ValueError", <<"Invalid GitHub URL provided!">>)
TokenRequired(what) == Exc("ValueError", <<"Token is required for ", what, ".">>)
UnboundSemaphore ==
    Exc("UnboundLocalError", <<"local variable 'semaphore' referenced before assignment">>)
KeyErrorRate == Exc("KeyError", <<"'rate'">>)
IncorrectPadding == Exc("binascii.Error", <<"Incorrect padding">>)
CannotDecode == Exc("UnicodeDecodeError", <<"'utf-8' codec can't decode byte 0xff">>)

\* the exception classes backoff.on_exception retries:
\* (aiohttp.ClientError, asyncio.TimeoutError) and their subclasses
Retryable(exc) == exc.type \in {"ClientError", "ClientResponseError", "TimeoutError"}

Returned(value) == [ok |-> TRUE, value |-> value]
Raised(exc) == [ok |-> FALSE, exc |-> exc]

\* int(text) for the header values the service sends; it raises ValueError
\* unless the text is a decimal number
IsInt(text) == \E n \in 0..MaxRetryAfter : ToString(n) = text

IntOf(text) == CHOOSE n \in 0..MaxRetryAfter : ToString(n) = text

\* base64.b64decode(content).decode("utf-8")
B64Decode(content) ==
    IF Len(content) >= 2 /\ Head(content) = "b64(" /\ content[Len(content)] = ")"
    THEN LET bytes == SubSeq(content, 2, Len(content) - 1) IN
         IF "\\xff" \in SeqToSet(bytes) THEN Raised(CannotDecode) ELSE Returned(bytes)
    ELSE Raised(IncorrectPadding)

get_file_content(file_info) ==
    IF file_info.encoding = "base64" THEN B64Decode(file_info.content)
    ELSE Returned(file_info.content)

\* urlparse(url).path: what follows scheme://netloc, up to "?" or "#"
RECURSIVE UpTo(_, _)
UpTo(s, stops) ==
    IF s = <<>> \/ Head(s) \in stops THEN <<>> ELSE <<Head(s)>> \o UpTo(Tail(s), stops)

RECURSIVE From(_, _)
From(s, ch) == IF s = <<>> \/ Head(s) = ch THEN s ELSE From(Tail(s), ch)

UrlPath(u) ==
    LET rest == IF Len(u) >= 3 /\ u[2] = "/" /\ u[3] = "/"
                THEN From(SubSeq(u, 4, Len(u)), "/")
                ELSE u
    IN UpTo(rest, {"?", "#"})

parse_github_url(u) ==
    LET path_segments == Split(Strip(UrlPath(u), "/"), "/") IN
    IF Len(path_segments) >= 2
    THEN Returned(<<path_segments[1], path_segments[2]>>)
    ELSE Raised(InvalidUrl)

\* an exclusion that looks at the first segment only
IsExcludedAtTop(path) == Split(path, "/")[1] = dot_github

\* ".github" in item["path"].split("/")
IsExcluded(path) == dot_github \in SeqToSet(Split(path, "/"))

AllowList ==
    {<<".py">>, <<".ipynb">>, <<".html">>, <<".css">>, <<".js">>, <<".jsx">>,
     <<".rst">>, <<".md">>}

IsAllowListed(name) == EndsWith(name, AllowList)

\* the three-backquote fence of a content block
Fence == "[fence]"

DirLine(indent, name) == Indent(indent) \o <<"[">> \o name \o <<"/]\n">>
FileLine(indent, name) == Indent(indent) \o name \o <<"\n">>
ContentBlock(indent, file_content) ==
    Indent(indent + 1) \o <<Fence>> \o file_content \o <<Fence, "\n">>

----------------------------------------------------------------------------
(* The state the operations transform.  The operators below take the       *)
(* mutable part of the state as a record S and give the record after the   *)
(* task has run to its next suspension point.                              *)

Cur ==
    [mpc |-> mpc, fetch |-> fetch, walk |-> walk, sem |-> sem, doc |-> doc,
     outcome |-> outcome, reqCount |-> reqCount, issued |-> issued,
     emitted |-> emitted, result |-> result]

Root == <<>>
ReadmePath == readme_md

IdleFetch ==
    [phase |-> "idle", fn |-> None, path |-> <<>>, owner |-> <<>>, k |-> 0,
     tries |-> <<>>, timer |-> 0, slept |-> 0]

NoWalk ==
    [pc |-> "none", parent |-> <<>>, indent |-> 0, items |-> <<>>, i |-> 1,
     tree_str |-> <<>>, tasks |-> <<>>, j |-> 1, exc |-> Exc(None, <<>>),
     file_fetch_tasks |-> <<>>, got |-> <<>>, contents |-> <<>>, overtook |-> FALSE]

UnboundSem == [bound |-> FALSE, value |-> 0, waiters |-> <<>>, granted |-> {}]

\* asyncio.Semaphore(n)
Semaphore(n) == [bound |-> TRUE, value |-> n, waiters |-> <<>>, granted |-> {}]

\* a gate that only looks at the queue, not at the tokens left
LockedIgnoringValue(s) == s.waiters # <<>>

\* Semaphore.locked(): no token left, or some task is queued
Locked(s) == s.value = 0 \/ s.waiters # <<>>

\* a release that wakes nobody
WakeUpNobody(s) == s

\* Semaphore._wake_up_next(): hand a token to the first waiter not yet woken
WakeUpNext(s) ==
    LET waiting == {n \in 1..Len(s.waiters) : s.waiters[n] \notin s.granted} IN
    IF waiting = {} \/ s.value = 0 THEN s
    ELSE LET n == CHOOSE n \in waiting : \A m \in waiting : n <= m IN
         [s EXCEPT !.value = @ - 1, !.granted = @ \cup {s.waiters[n]}]

\* Semaphore.release(), the exit of "async with semaphore"
Release(s) == WakeUpNext([s EXCEPT !.value = @ + 1])

----------------------------------------------------------------------------
(* fetch_repo_content / fetch_rate_limit_status: sending *)

\* session.get(...): the request goes out; the task waits for the response
Send(S, t) ==
    LET f == S.fetch[t] IN
    [S EXCEPT !.fetch[t] = [f EXCEPT !.phase = "inflight",
                                     !.k = S.reqCount[f.path] + 1,
                                     !.tries[Len(f.tries)] = @ + 1],
              !.reqCount[f.path] = @ + 1,
              !.issued = IF f.fn = "content" THEN @ \cup {f.path} ELSE @]

\* a call of the decorated function: the retry loop starts with tries = 0
StartFetch(S, t, fn, path, owner) ==
    Send([S EXCEPT !.fetch[t] = [IdleFetch EXCEPT !.fn = fn, !.path = path,
                                                  !.owner = owner, !.tries = <<0>>]], t)

----------------------------------------------------------------------------
(* retrieve_github_repo_info of repo2prompt_async_prd.py: its last lines *)

\* line 145, line 147, line 157, line 159: the pieces of formatted_string
ReadmeBlock(readme_content) ==
    <<"README.md:\n", Fence, "\n">> \o readme_content \o <<"\n", Fence, "\n\n">>
ReadmeDiagnostic(exc) == <<"Failed to retrieve README.md: ">> \o exc.msg \o <<"\n\n">>
TreeSection(directory_tree) == <<"Directory Structure:\n">> \o directory_tree \o <<"\n">>
TreeDiagnostic(exc) == <<"Failed to build directory tree: ">> \o exc.msg \o <<"\n">>

ReturnDoc(S, text) ==
    [S EXCEPT !.doc = text, !.mpc = "done", !.outcome = "returned",
              !.result = Returned(text)]

RaiseOut(S, exc) ==
    [S EXCEPT !.mpc = "done", !.outcome = "raised", !.result = Raised(exc)]

\* lines 149-161: the tree section or its diagnostic, then the return
AfterWalk(S, res) ==
    IF res.ok
    THEN ReturnDoc(S, S.doc \o TreeSection(res.value))
    ELSE ReturnDoc(S, S.doc \o TreeDiagnostic(res.exc))

----------------------------------------------------------------------------
(* build_directory_tree of repo2prompt_async_prd.py *)

\* history: the task t ends while a task its parent created before it runs on
Overtakes(S, t) ==
    LET siblings == S.walk[S.walk[t].parent].tasks IN
    \E m, n \in 1..Len(siblings) :
        /\ m < n
        /\ siblings[n] = t
        /\ S.walk[siblings[m]].pc \notin {"done", "failed"}

\* return tree_str, or the exception leaving the coroutine
ReturnWalk(S, t, res) ==
    IF t = Root
    THEN AfterWalk(IF res.ok THEN [S EXCEPT !.walk[t].pc = "done"]
                   ELSE [S EXCEPT !.walk[t].pc = "failed", !.walk[t].exc = res.exc], res)
    ELSE IF res.ok THEN [S EXCEPT !.walk[t].pc = "done", !.walk[t].overtook = Overtakes(S, t)]
    ELSE [S EXCEPT !.walk[t].pc = "failed", !.walk[t].exc = res.exc]

\* a join that takes the sub-walks in the order they complete
RECURSIVE JoinAsCompleted(_, _)
JoinAsCompleted(S, t) ==
    LET w == S.walk[t]
        left == {n \in w.j..Len(w.tasks) : S.walk[w.tasks[n]].pc \in {"done", "failed"}}
    IN IF w.j > Len(w.tasks) THEN ReturnWalk(S, t, Returned(w.tree_str))
       ELSE IF left = {} THEN [S EXCEPT !.walk[t].pc = "join"]
       ELSE LET n == CHOOSE n \in left : \A m \in left : n <= m
                cw == S.walk[w.tasks[n]]
            IN IF cw.pc = "failed" THEN ReturnWalk(S, t, Raised(cw.exc))
               ELSE JoinAsCompleted(
                        [S EXCEPT !.walk[t].tree_str = @ \o cw.tree_str,
                                  !.walk[t].tasks = [@ EXCEPT ![n] = w.tasks[w.j],
                                                              ![w.j] = w.tasks[n]],
                                  !.walk[t].j = @ + 1], t)

\* lines 109-111: for task in tasks: tree_str += await task
RECURSIVE JoinFrom(_, _)
JoinFrom(S, t) ==
    LET w == S.walk[t] IN
    IF w.j > Len(w.tasks) THEN ReturnWalk(S, t, Returned(w.tree_str))
    ELSE LET cw == S.walk[w.tasks[w.j]] IN
         CASE cw.pc = "done" ->
                JoinFrom([S EXCEPT !.walk[t].tree_str = @ \o cw.tree_str,
                                   !.walk[t].j = @ + 1], t)
           [] cw.pc = "failed" -> ReturnWalk(S, t, Raised(cw.exc))
           [] OTHER -> [S EXCEPT !.walk[t].pc = "join"]

\* line 100: async with semaphore, then line 101: the leaf fetch
Acquire(S, t, path) ==
    IF ~Locked(S.sem)
    THEN StartFetch([S EXCEPT !.sem.value = @ - 1, !.walk[t].pc = "leaf"],
                    t, "content", path, t)
    ELSE [S EXCEPT !.sem.waiters = Append(@, t), !.walk[t].pc = "sem_wait"]

\* lines 84-107: the loop over the listing, from item i to the next suspension
RECURSIVE LoopFrom(_, _)
LoopFrom(S, t) ==
    LET w == S.walk[t] IN
    IF w.i > Len(w.items) THEN JoinFrom(S, t)
    ELSE LET item == w.items[w.i] IN
         IF IsExcluded(item.path) THEN LoopFrom([S EXCEPT !.walk[t].i = @ + 1], t)
         ELSE IF item.type = "dir"
         THEN LoopFrom([S EXCEPT !.walk[t].tree_str = @ \o DirLine(w.indent, item.name),
                                 !.walk[t].tasks = Append(@, item.path),
                                 !.walk[t].i = @ + 1,
                                 !.walk[item.path] =
                                     [NoWalk EXCEPT !.pc = "spawned", !.parent = t,
                                                    !.indent = w.indent + 1],
                                 !.emitted = @ \cup {item.path}], t)
         ELSE LET S1 == [S EXCEPT !.walk[t].tree_str = @ \o FileLine(w.indent, item.name),
                                  !.emitted = @ \cup {item.path}]
              IN IF IsAllowListed(item.name) THEN Acquire(S1, t, item.path)
                 ELSE LoopFrom([S1 EXCEPT !.walk[t].i = @ + 1], t)

\* line 81: items = await fetch_repo_content(session, owner, repo, path, token)
StartWalk(S, t) ==
    StartFetch([S EXCEPT !.walk[t].pc = "listing"], t, "content", t, t)

AfterListing(S, t, res) ==
    IF res.ok THEN LoopFrom([S EXCEPT !.walk[t].items = res.value, !.walk[t].i = 1], t)
    ELSE ReturnWalk(S, t, res)

\* a leaf fetch that gives its token back only when it has appended the block
AfterLeafKeepsTokenOnFailure(S, t, res) ==
    LET w == S.walk[t] IN
    IF ~res.ok THEN ReturnWalk(S, t, res)
    ELSE LET file_content == get_file_content(res.value) IN
         IF ~file_content.ok THEN ReturnWalk(S, t, file_content)
         ELSE LoopFrom([S EXCEPT !.sem = Release(@),
                                 !.walk[t].tree_str =
                                     @ \o ContentBlock(w.indent, file_content.value),
                                 !.walk[t].i = @ + 1], t)

\* lines 101-107: the leaf fetched, decoded and appended; the semaphore left
AfterLeaf(S, t, res) ==
    LET S1 == [S EXCEPT !.sem = Release(@)]
        w == S.walk[t]
    IN IF ~res.ok THEN ReturnWalk(S1, t, res)
       ELSE LET file_content == get_file_content(res.value) IN
            IF ~file_content.ok THEN ReturnWalk(S1, t, file_content)
            ELSE LoopFrom([S1 EXCEPT !.walk[t].tree_str =
                                         @ \o ContentBlock(w.indent, file_content.value),
                                     !.walk[t].i = @ + 1], t)

----------------------------------------------------------------------------
(* retrieve_github_repo_info of repo2prompt_async_prd.py *)

\* lines 149-155: the second try block
TryWalk(S) ==
    IF token = None THEN AfterWalk(S, Raised(TokenRequired("building directory tree")))
    ELSE IF ~S.sem.bound THEN AfterWalk(S, Raised(UnboundSemaphore))
    ELSE StartWalk([S EXCEPT !.mpc = "walk", !.walk[Root] = [NoWalk EXCEPT !.pc = "listing"]],
                   Root)

\* a README failure that ends the run with the diagnostic alone
ReadmeFailedEndsRun(S, exc) ==
    ReturnDoc(S, ReadmeDiagnostic(exc))

\* lines 146-147: except Exception as e
ReadmeFailed(S, exc) ==
    TryWalk([S EXCEPT !.doc = ReadmeDiagnostic(exc)])

\* lines 144-145
AfterReadme(S, res) ==
    IF ~res.ok THEN ReadmeFailed(S, res.exc)
    ELSE LET readme_content == get_file_content(res.value) IN
         IF ~readme_content.ok THEN ReadmeFailed(S, readme_content.exc)
         ELSE TryWalk([S EXCEPT !.doc = @ \o ReadmeBlock(readme_content.value)])

\* lines 135-142: the semaphore, then the README fetch
AfterGuard(S) ==
    LET S1 == [S EXCEPT !.sem = Semaphore(capacity), !.doc = <<>>] IN
    IF token # None THEN StartFetch([S1 EXCEPT !.mpc = "readme"], Root, "content",
                                    ReadmePath, Root)
    ELSE ReadmeFailed(S1, TokenRequired("fetching repo content"))

\* a guard that also sleeps when the quota left is exactly the floor
MustSleepAtFloor(rate) == rate.remaining <= RateFloor /\ rate.reset > 0

\* lines 121-124: remaining < 100 and reset_time > now (now is the origin of time)
MustSleep(rate) == rate.remaining < RateFloor /\ rate.reset > 0

\* lines 119-129: the Rate Guard
AfterRate(S, res) ==
    IF ~res.ok THEN ReadmeFailed(S, res.exc)
    ELSE LET rate == res.value IN
         IF MustSleep(rate)
         THEN [S EXCEPT !.mpc = "guard_sleep",
                        !.fetch[Root] = [IdleFetch EXCEPT !.phase = "sleep",
                                                          !.timer = rate.reset]]
         ELSE AfterGuard(S)

\* lines 115-119 and 130-133
Begin(S) ==
    LET parsed == parse_github_url(url) IN
    IF ~parsed.ok THEN RaiseOut(S, parsed.exc)
    ELSE IF token # None THEN StartFetch([S EXCEPT !.mpc = "rate"], Root, "rate", RateUrl, Root)
    ELSE AfterGuard(S)

----------------------------------------------------------------------------
(* repo2prompt_async.py *)

RECURSIVE AppendBlocks(_, _)
AppendBlocks(text, file_contents) ==
    IF file_contents = <<>> THEN text
    ELSE AppendBlocks(text \o <<"\n", Fence>> \o Head(file_contents) \o <<Fence, "\n">>,
                      Tail(file_contents))

\* lines 77-85; an exception of the walk leaves retrieve_github_repo_info
AfterWalkA(S, res) ==
    IF ~res.ok THEN RaiseOut(S, res.exc)
    ELSE ReturnDoc(S, AppendBlocks(S.doc \o TreeSection(res.value.tree_str),
                                   res.value.contents))

\* line 59: [get_file_content(file_info) for file_info in file_contents]
RECURSIVE DecodeAll(_, _)
DecodeAll(paths, got) ==
    IF paths = <<>> THEN Returned(<<>>)
    ELSE LET one == get_file_content(got[Head(paths)]) IN
         IF ~one.ok THEN one
         ELSE LET rest == DecodeAll(Tail(paths), got) IN
              IF ~rest.ok THEN rest ELSE Returned(<<one.value>> \o rest.value)

RECURSIVE LoopFromA(_, _)
RECURSIVE ReturnWalkA(_, _, _)

\* line 61: return tree_str, file_contents_decoded (or the exception), and
\* line 45, 48 in the caller: sub_tree_str, _ = await ...; tree_str += sub_tree_str
ReturnWalkA(S, t, res) ==
    LET S1 == [S EXCEPT !.walk[t].pc = IF res.ok THEN "done" ELSE "failed"] IN
    IF t = Root THEN AfterWalkA(S1, res)
    ELSE LET p == S.walk[t].parent IN
         IF ~res.ok THEN ReturnWalkA(S1, p, res)
         ELSE LoopFromA([S1 EXCEPT !.walk[p].tree_str = @ \o res.value.tree_str,
                                   !.walk[p].i = @ + 1], p)

\* lines 58-61, once asyncio.gather has its results
AfterGather(S, t) ==
    LET w == S.walk[t]
        decoded == DecodeAll(w.file_fetch_tasks, w.got)
    IN IF w.exc.type # None THEN ReturnWalkA(S, t, Raised(w.exc))
       ELSE IF ~decoded.ok THEN ReturnWalkA(S, t, decoded)
       ELSE ReturnWalkA([S EXCEPT !.walk[t].contents = decoded.value], t,
                        Returned([tree_str |-> w.tree_str, contents |-> decoded.value]))

\* line 58: await asyncio.gather(*file_fetch_tasks)
Gather(S, t) ==
    LET w == S.walk[t] IN
    IF w.file_fetch_tasks = <<>> THEN AfterGather(S, t)
    ELSE [S EXCEPT !.walk[t].pc = "gather",
                   !.fetch = [q \in DOMAIN @ |->
                                 IF q \in SeqToSet(w.file_fetch_tasks)
                                 THEN [IdleFetch EXCEPT !.phase = "created",
                                                        !.fn = "content", !.path = q,
                                                        !.owner = t, !.tries = <<0>>]
                                 ELSE @[q]]]

StartWalkA(S, t, parent, indent) ==
    StartFetch([S EXCEPT !.walk[t] = [NoWalk EXCEPT !.pc = "listing", !.parent = parent,
                                                    !.indent = indent]],
               t, "content", t, t)

\* lines 40-56
LoopFromA(S, t) ==
    LET w == S.walk[t] IN
    IF w.i > Len(w.items) THEN Gather(S, t)
    ELSE LET item == w.items[w.i] IN
         IF IsExcluded(item.path) THEN LoopFromA([S EXCEPT !.walk[t].i = @ + 1], t)
         ELSE IF item.type = "dir"
         THEN StartWalkA([S EXCEPT !.walk[t].tree_str = @ \o DirLine(w.indent, item.name),
                                   !.walk[t].pc = "sub",
                                   !.emitted = @ \cup {item.path}],
                         item.path, t, w.indent + 1)
         ELSE LET S1 == [S EXCEPT !.walk[t].tree_str = @ \o FileLine(w.indent, item.name),
                                  !.walk[t].i = @ + 1,
                                  !.emitted = @ \cup {item.path}]
              IN IF IsAllowListed(item.name)
                 THEN LoopFromA([S1 EXCEPT !.walk[t].file_fetch_tasks = Append(@, item.path)], t)
                 ELSE LoopFromA(S1, t)

AfterListingA(S, t, res) ==
    IF res.ok THEN LoopFromA([S EXCEPT !.walk[t].items = res.value, !.walk[t].i = 1], t)
    ELSE ReturnWalkA(S, t, res)

\* a fetch wrapped by gather ends: its result is kept, the first exception is
\* set on the gathering future
AfterLeafA(S, p, owner, res) ==
    IF res.ok THEN [S EXCEPT !.walk[owner].got = (p :> res.value) @@ @]
    ELSE IF S.walk[owner].exc.type = None THEN [S EXCEPT !.walk[owner].exc = res.exc]
    ELSE S

GatherDone(w) ==
    w.exc.type # None \/ SeqToSet(w.file_fetch_tasks) \subseteq DOMAIN w.got

\* lines 68-77: the README block or the fixed diagnostic, then the walk
AfterReadmeA(S, res) ==
    LET readme_content == IF res.ok THEN get_file_content(res.value) ELSE res
        text == IF readme_content.ok THEN ReadmeBlock(readme_content.value)
                ELSE <<"README.md: Not found or error fetching README\n\n">>
    IN StartWalkA([S EXCEPT !.doc = text, !.mpc = "walk"], Root, Root, 0)

\* lines 65-71
BeginA(S) ==
    LET parsed == parse_github_url(url) IN
    IF ~parsed.ok THEN RaiseOut(S, parsed.exc)
    ELSE StartFetch([S EXCEPT !.mpc = "readme"], Root, "content", ReadmePath, Root)

----------------------------------------------------------------------------
(* fetch_repo_content / fetch_rate_limit_status: the response *)

\* the awaited call ends: control is back in the caller, which runs on
Finish(S0, t, res) ==
    LET f == S0.fetch[t]
        S == [S0 EXCEPT !.fetch[t] = IdleFetch]
    IN CASE program = "fetch" ->
              [S EXCEPT !.mpc = "done", !.result = res,
                        !.outcome = IF res.ok THEN "returned" ELSE "raised"]
         [] program = "prd" ->
              (CASE t = Root /\ S.mpc = "rate" -> AfterRate(S, res)
                 [] t = Root /\ S.mpc = "readme" -> AfterReadme(S, res)
                 [] OTHER -> IF S.walk[t].pc = "listing" THEN AfterListing(S, t, res)
                             ELSE AfterLeaf(S, t, res))
         [] program = "async" ->
              (CASE t = Root /\ S.mpc = "readme" -> AfterReadmeA(S, res)
                 [] t \in DOMAIN S.walk /\ S.walk[t].pc = "listing" -> AfterListingA(S, t, res)
                 [] OTHER -> AfterLeafA(S, t, f.owner, res))

\* a retry loop that gives up one attempt late
MaxTriesOvershot(tries) == tries > max_tries

\* backoff: max_tries_exceeded = (tries == max_tries_value)
MaxTriesExceeded(tries) == tries = max_tries

\* an exception leaves an attempt: each enclosing retry loop of the call either
\* sleeps and tries again, or gives up and lets the exception out.  The result is
\* the stack of the retry loops still running (empty: the call has raised).
RECURSIVE Unwind(_, _)
Unwind(tries, exc) ==
    IF tries = <<>> THEN <<>>
    ELSE IF Retryable(exc) /\ ~MaxTriesExceeded(tries[Len(tries)]) THEN tries
    ELSE Unwind(SubSeq(tries, 1, Len(tries) - 1), exc)

RaiseIn(S, t, exc) ==
    LET left == IF program = "async" THEN <<>> ELSE Unwind(S.fetch[t].tries, exc) IN
    IF left = <<>> THEN Finish(S, t, Raised(exc))
    ELSE [S EXCEPT !.fetch[t].phase = "backoff", !.fetch[t].tries = left]

\* repo2prompt_async_prd.py lines 46-62
OnContentResponse(S, t, resp) ==
    LET f == S.fetch[t] IN
    CASE resp.status = 0 -> RaiseIn(S, t, TransportFault)
      [] resp.status = 200 -> Finish(S, t, Returned(Body(remote, f.path)))
      [] resp.status \in {403, 429} ->
            LET retry_after == resp.retry_after IN
            IF retry_after # None /\ retry_after # ""
            THEN IF ~IsInt(retry_after) THEN RaiseIn(S, t, InvalidLiteral(retry_after))
                 ELSE [S EXCEPT !.fetch[t].phase = "retry_after",
                                !.fetch[t].timer = IntOf(retry_after),
                                !.fetch[t].slept = 0]
            ELSE RaiseIn(S, t, RateLimitExceeded(resp.status))
      [] resp.status = 404 -> RaiseIn(S, t, ResourceNotFound)
      [] OTHER -> RaiseIn(S, t, ResponseError(resp.status))

\* repo2prompt_async.py lines 22-26
OnContentResponseA(S, t, resp) ==
    LET f == S.fetch[t] IN
    CASE resp.status = 0 -> RaiseIn(S, t, TransportFault)
      [] resp.status = 200 -> Finish(S, t, Returned(Body(remote, f.path)))
      [] OTHER -> RaiseIn(S, t, ResponseError(resp.status))

\* repo2prompt_async_prd.py lines 27-29
OnRateResponse(S, t, resp) ==
    CASE resp.status = 0 -> RaiseIn(S, t, TransportFault)
      [] resp.status = 200 -> Finish(S, t, Returned(remote.rate))
      [] OTHER -> RaiseIn(S, t, KeyErrorRate)

OnResponse(S, t, resp) ==
    IF S.fetch[t].fn = "rate" THEN OnRateResponse(S, t, resp)
    ELSE IF program = "async" THEN OnContentResponseA(S, t, resp)
    ELSE OnContentResponse(S, t, resp)

\* a sleep that does not wait
SleepSkipped(f) == TRUE

\* asyncio.sleep(int(retry_after)) is over
SleepOver(f) == f.timer = 0

\* line 54: return await fetch_repo_content(...): a new call, a new retry loop
Reissue(S, t) == Send([S EXCEPT !.fetch[t].tries = Append(@, 0), !.fetch[t].slept = 0], t)

----------------------------------------------------------------------------
(* Actions *)

Apply(S) ==
    /\ mpc' = S.mpc
    /\ fetch' = S.fetch
    /\ walk' = S.walk
    /\ sem' = S.sem
    /\ doc' = S.doc
    /\ outcome' = S.outcome
    /\ reqCount' = S.reqCount
    /\ issued' = S.issued
    /\ emitted' = S.emitted
    /\ result' = S.result
    /\ UNCHANGED <<program, remote, url, token, capacity>>

Running == outcome = "running"

\* the entry point is called
Start ==
    /\ Running
    /\ mpc = "start"
    /\ Apply(CASE program = "prd" -> Begin(Cur)
               [] program = "async" -> BeginA(Cur)
               [] program = "fetch" ->
                    StartFetch([Cur EXCEPT !.mpc = "call"], Root, "content", a_py, Root))

\* the remote answers the request of t (or the transport fails)
Respond(t) ==
    /\ Running
    /\ fetch[t].phase = "inflight"
    /\ Apply(OnResponse(Cur, t, Response(remote, fetch[t].path, fetch[t].k)))

\* the backoff delay of t is over: the next attempt
BackoffWake(t) ==
    /\ Running
    /\ fetch[t].phase = "backoff"
    /\ Apply(Send(Cur, t))

\* the Retry-After sleep of t is over: line 54
RetryAfterWake(t) ==
    /\ Running
    /\ fetch[t].phase = "retry_after"
    /\ SleepOver(fetch[t])
    /\ Len(fetch[t].tries) <= MaxNest
    /\ Apply(Reissue(Cur, t))

\* the Rate Guard's sleep is over: line 135 on
GuardWake ==
    /\ Running
    /\ mpc = "guard_sleep"
    /\ fetch[Root].timer = 0
    /\ Apply(AfterGuard([Cur EXCEPT !.fetch[Root] = IdleFetch]))

\* a task made by asyncio.create_task starts: line 81
TaskStart(t) ==
    /\ Running
    /\ walk[t].pc = "spawned"
    /\ Apply(StartWalk(Cur, t))

\* a task queued on the semaphore has been handed a token
SemWake(t) ==
    /\ Running
    /\ walk[t].pc = "sem_wait"
    /\ t \in sem.granted
    /\ LET left == SelectSeq(sem.waiters, LAMBDA q : q # t)
           S == [Cur EXCEPT !.sem = WakeUpNext([@ EXCEPT !.waiters = left,
                                                         !.granted = @ \ {t}]),
                            !.walk[t].pc = "leaf"]
       IN Apply(StartFetch(S, t, "content", walk[t].items[walk[t].i].path, t))

\* the task awaited at line 110 has ended
JoinWake(t) ==
    /\ Running
    /\ walk[t].pc = "join"
    /\ walk[walk[t].tasks[walk[t].j]].pc \in {"done", "failed"}
    /\ Apply(JoinFrom(Cur, t))

\* repo2prompt_async.py: a fetch wrapped by gather starts
LeafStart(p) ==
    /\ Running
    /\ fetch[p].phase = "created"
    /\ Apply(Send(Cur, p))

\* repo2prompt_async.py: the gathering future is done
GatherWake(t) ==
    /\ Running
    /\ walk[t].pc = "gather"
    /\ GatherDone(walk[t])
    /\ Apply(AfterGather(Cur, t))

\* one second passes for every sleeping task
Tick ==
    /\ Running
    /\ \E t \in DOMAIN fetch : fetch[t].timer > 0
    /\ fetch' = [t \in DOMAIN fetch |->
                    IF fetch[t].timer > 0
                    THEN [fetch[t] EXCEPT !.timer = @ - 1, !.slept = @ + 1]
                    ELSE fetch[t]]
    /\ UNCHANGED <<program, remote, url, token, capacity, mpc, walk, sem, doc,
                   outcome, reqCount, issued, emitted, result>>

----------------------------------------------------------------------------
(* Initial states: the inputs and the behaviour of the remote service *)

Capacities == (1..MaxCapacity) \cup {SemaphoreLimit}

UrlGood ==
    <<"https:", "/", "/", "github.com", "/", "nomic-ai", "/", "nomic", "/", "tree", "/", "main">>
UrlOwnerOnly == <<"https:", "/", "/", "github.com", "/", "nomic-ai", "/">>
UrlBare == <<"https:", "/", "/", "github.com">>
UrlEmptySegment ==
    <<"https:", "/", "/", "github.com", "/", "nomic-ai", "/", "/", "nomic", "?", "tab">>
Urls == {UrlGood, UrlOwnerOnly, UrlBare, UrlEmptySegment}

RateHigh == [remaining |-> 5000, limit |-> 5000, reset |-> MaxGuardSleep]
RateLow == [remaining |-> RateFloor - 1, limit |-> 5000, reset |-> MaxGuardSleep]
RateLowReset == [remaining |-> 0, limit |-> 5000, reset |-> -1]
RateAtFloor == [remaining |-> RateFloor, limit |-> 5000, reset |-> MaxGuardSleep]
Rates == {RateHigh, RateLow, RateLowReset, RateAtFloor}

Remote(listing, kind, script, rate) ==
    [listing |-> listing, kind |-> kind, script |-> script, rate |-> rate]

Plain(listing) == Remote(listing, <<>>, <<>>, RateHigh)

\* the paths a run may ask for
Askable(listing) == DirPaths(listing) \cup FilePaths(listing) \cup {ReadmePath}

\* behaviours of one path within a whole run
PipelineScripts ==
    {Script(<<Fault>>, R200), Script(<<>>, Fault), NotFound, Script(<<>>, Http(500)),
     Script(<<>>, Http(403)), Script(<<Limited(429, ToString(MaxRetryAfter))>>, R200),
     Script(<<Limited(403, "Wed, 21 Oct 2026 07:28:00 GMT")>>, R200)}

HardFailures == {NotFound, Script(<<>>, Http(500))}

RateScripts == {Script(<<Fault>>, R200), Script(<<>>, Fault), Script(<<>>, Http(401))}

Remotes(listing) ==
    {Plain(listing)}
    \cup {Remote(listing, <<>>, (p :> s), RateHigh) :
            p \in Askable(listing), s \in PipelineScripts}
    \cup {Remote(listing, <<>>, (pq[1] :> s) @@ (pq[2] :> r), RateHigh) :
            pq \in {pq \in (DirPaths(listing) \ {Root}) \X (DirPaths(listing) \ {Root}) :
                        pq[1] # pq[2]},
            s \in HardFailures, r \in HardFailures}
    \cup {Remote(listing, (p :> k), <<>>, RateHigh) :
            p \in FilePaths(listing) \cup {ReadmePath}, k \in BodyKinds}
    \cup {Remote(listing, <<>>, <<>>, r) : r \in Rates}
    \cup {Remote(listing, <<>>, (RateUrl :> s), RateHigh) : s \in RateScripts}

\* behaviours of the path of one fetch_repo_content call
Alphabet ==
    {Fault, Http(404), Http(500), Http(403), Limited(429, ""),
     Limited(429, "0"), Limited(403, ToString(MaxRetryAfter)),
     Limited(429, "Wed, 21 Oct 2026 07:28:00 GMT")}

Finals == {R200, Fault, Http(404), Limited(429, "0")}

FetchScripts ==
    {Script(Times(Fault, n), R200) : n \in 0..MaxFaults}
    \cup {Script(pre, fin) : pre \in {<<>>} \cup {<<x>> : x \in Alphabet}
                                     \cup {<<x, y>> : x \in Alphabet, y \in Alphabet},
                             fin \in Finals}

Scenario(prog, rem, u, tok, cap) ==
    [program |-> prog, remote |-> rem, url |-> u, token |-> tok, capacity |-> cap]

Scenarios ==
    {Scenario("prd", rem, UrlGood, "ghp_token", cap) :
        rem \in UNION {Remotes(l) : l \in Repos}, cap \in Capacities}
    \cup {Scenario("prd", Plain(RepoA), u, tok, SemaphoreLimit) :
            u \in Urls, tok \in {None, "ghp_token"}}
    \cup {Scenario("async", rem, u, None, SemaphoreLimit) :
            rem \in UNION {Remotes(l) : l \in Repos}, u \in {UrlGood, UrlBare}}

FetchScenarios ==
    {Scenario("fetch", Remote(RepoA, <<>>, (a_py :> s), RateHigh), UrlGood, "ghp_token",
              SemaphoreLimit) : s \in FetchScripts}

InitWith(sc) ==
    /\ program = sc.program
    /\ remote = sc.remote
    /\ url = sc.url
    /\ token = sc.token
    /\ capacity = sc.capacity
    /\ mpc = "start"
    /\ fetch = [p \in Askable(sc.remote.listing) \cup {Root} |-> IdleFetch]
    /\ walk = [p \in DirPaths(sc.remote.listing) |-> NoWalk]
    /\ sem = UnboundSem
    /\ doc = <<>>
    /\ outcome = "running"
    /\ reqCount = [p \in Askable(sc.remote.listing) \cup {RateUrl} |-> 0]
    /\ issued = {}
    /\ emitted = {}
    /\ result = Raised(Exc(None, <<>>))

Init == \E sc \in Scenarios : InitWith(sc)

InitFetch == \E sc \in FetchScenarios : InitWith(sc)

Next ==
    \/ Start
    \/ \E t \in DOMAIN fetch : Respond(t)
    \/ \E t \in DOMAIN fetch : BackoffWake(t)
    \/ \E t \in DOMAIN fetch : RetryAfterWake(t)
    \/ GuardWake
    \/ \E t \in DOMAIN walk : TaskStart(t)
    \/ \E t \in DOMAIN walk : SemWake(t)
    \/ \E t \in DOMAIN walk : JoinWake(t)
    \/ \E p \in DOMAIN fetch : LeafStart(p)
    \/ \E t \in DOMAIN walk : GatherWake(t)
    \/ Tick

Spec == Init /\ [][Next]_vars

\* runs of repo2prompt_async_prd.py against a remote that answers every
\* request with 200, at once or after one fault or one throttling answer
Recovers == {Script(<<Fault>>, R200), Script(<<Limited(429, ToString(MaxRetryAfter))>>, R200)}

AnsweringRemotes(listing) ==
    {Remote(listing, <<>>, <<>>, r) : r \in Rates}
    \cup {Remote(listing, <<>>, (p :> s), RateHigh) : p \in Askable(listing), s \in Recovers}
    \cup {Remote(listing, (p :> "none"), <<>>, RateHigh) : p \in FilePaths(listing)}

WalkScenarios ==
    {Scenario("prd", rem, UrlGood, "ghp_token", cap) :
        rem \in UNION {AnsweringRemotes(l) : l \in Repos}, cap \in Capacities}

InitWalk == \E sc \in WalkScenarios : InitWith(sc)

NextWalk ==
    \/ Start
    \/ \E t \in DOMAIN fetch : Respond(t)
    \/ \E t \in DOMAIN fetch : BackoffWake(t)
    \/ \E t \in DOMAIN fetch : RetryAfterWake(t)
    \/ GuardWake
    \/ \E t \in DOMAIN walk : TaskStart(t)
    \/ \E t \in DOMAIN walk : SemWake(t)
    \/ \E t \in DOMAIN walk : JoinWake(t)
    \/ Tick

\* some task is ready to run, some answer is due or some sleep goes on: the
\* guards of the actions of NextWalk, that is ENABLED <<NextWalk>>_vars
Ready ==
    /\ Running
    /\ \/ mpc = "start"
       \/ \E t \in DOMAIN fetch : fetch[t].phase \in {"inflight", "backoff"}
       \/ \E t \in DOMAIN fetch :
             /\ fetch[t].phase = "retry_after"
             /\ SleepOver(fetch[t])
             /\ Len(fetch[t].tries) <= MaxNest
       \/ mpc = "guard_sleep" /\ fetch[Root].timer = 0
       \/ \E t \in DOMAIN walk : walk[t].pc = "spawned"
       \/ \E t \in DOMAIN walk : walk[t].pc = "sem_wait" /\ t \in sem.granted
       \/ \E t \in DOMAIN walk :
             /\ walk[t].pc = "join"
             /\ walk[walk[t].tasks[walk[t].j]].pc \in {"done", "failed"}
       \/ \E t \in DOMAIN fetch : fetch[t].timer > 0

\* the event loop runs every task that is ready, every sleep ends and the
\* remote answers every request: some enabled step is always taken.  This is
\* WF_vars(NextWalk) with its ENABLED written out as Ready.
FairSpecWalk ==
    InitWalk /\ [][NextWalk]_vars /\ ([]<>~Ready \/ []<><<NextWalk>>_vars)

NextFetch ==
    \/ Start
    \/ \E t \in DOMAIN fetch : Respond(t)
    \/ \E t \in DOMAIN fetch : BackoffWake(t)
    \/ \E t \in DOMAIN fetch : RetryAfterWake(t)
    \/ Tick

SpecFetch == InitFetch /\ [][NextFetch]_vars

\* line 54 at a depth beyond MaxNest: the reissue goes out as at any depth.
\* The remote's script is used up, so this request is answered as the last
\* one was; the model keeps the innermost retry loops and the number of the
\* last request, and the state stands for every deeper one.
ReissueDeep(S, t) ==
    LET f == S.fetch[t] IN
    [S EXCEPT !.fetch[t] = [f EXCEPT !.phase = "inflight", !.slept = 0,
                                     !.tries = Append(Tail(f.tries), 1)]]

RetryAfterWakeDeep(t) ==
    /\ Running
    /\ fetch[t].phase = "retry_after"
    /\ SleepOver(fetch[t])
    /\ Len(fetch[t].tries) > MaxNest
    /\ fetch[t].k > Len(ScriptOf(remote, fetch[t].path).pre)
    /\ Apply(ReissueDeep(Cur, t))

\* one call followed through reissues of any depth
NextFetchDeep ==
    \/ Start
    \/ \E t \in DOMAIN fetch : Respond(t)
    \/ \E t \in DOMAIN fetch : BackoffWake(t)
    \/ \E t \in DOMAIN fetch : RetryAfterWake(t)
    \/ \E t \in DOMAIN fetch : RetryAfterWakeDeep(t)
    \/ Tick

\* the event loop runs every task that is ready, every sleep ends and the
\* remote answers every request: some enabled step is always taken
FairSpecFetch == InitFetch /\ [][NextFetchDeep]_vars /\ WF_vars(NextFetchDeep)

----------------------------------------------------------------------------
(* The tree a strictly sequential depth-first traversal writes (spec 4.4):  *)
(* every entry's line, an allow-listed file's block under its line, and a   *)
(* directory's whole subtree directly under the directory's line.           *)

RECURSIVE DepthFirst(_, _, _)
RECURSIVE DepthFirstItems(_, _, _)

DepthFirstItems(rem, items, indent) ==
    IF items = <<>> THEN <<>>
    ELSE LET item == Head(items)
             here ==
                 IF IsExcluded(item.path) THEN <<>>
                 ELSE IF item.type = "dir"
                 THEN DirLine(indent, item.name) \o DepthFirst(rem, item.path, indent + 1)
                 ELSE FileLine(indent, item.name)
                      \o (IF IsAllowListed(item.name)
                          THEN ContentBlock(indent,
                                            get_file_content(Body(rem, item.path)).value)
                          ELSE <<>>)
         IN here \o DepthFirstItems(rem, Tail(items), indent)

DepthFirst(rem, path, indent) == DepthFirstItems(rem, rem.listing[path], indent)

----------------------------------------------------------------------------
(* The run read as a function of the remote alone: every call is evaluated  *)
(* to its end before the next one starts.                                   *)

Outcome(res, k) == [res |-> res, k |-> k]

\* fetch_repo_content (prd, lines 32-62) from its attempt number `tries`, whose
\* request is the k-th the remote receives for path; .k is the number of the
\* next request
RECURSIVE CallOutcome(_, _, _, _)
CallOutcome(rem, path, k, tries) ==
    LET resp == Response(rem, path, k)
        Fail(exc, k2) ==
            IF Retryable(exc) /\ tries # max_tries
            THEN CallOutcome(rem, path, k2, tries + 1)
            ELSE Outcome(Raised(exc), k2)
    IN CASE resp.status = 0 -> Fail(TransportFault, k + 1)
         [] resp.status = 200 -> Outcome(Returned(Body(rem, path)), k + 1)
         [] resp.status \in {403, 429} ->
              IF resp.retry_after \in {None, ""} THEN Fail(RateLimitExceeded(resp.status), k + 1)
              ELSE IF ~IsInt(resp.retry_after)
              THEN Outcome(Raised(InvalidLiteral(resp.retry_after)), k + 1)
              ELSE LET inner == CallOutcome(rem, path, k + 1, 1) IN
                   IF inner.res.ok THEN inner ELSE Fail(inner.res.exc, inner.k)
         [] resp.status = 404 -> Fail(ResourceNotFound, k + 1)
         [] OTHER -> Fail(ResponseError(resp.status), k + 1)

\* fetch_rate_limit_status (lines 19-29)
RECURSIVE RateOutcome(_, _, _)
RateOutcome(rem, k, tries) ==
    LET resp == Response(rem, RateUrl, k) IN
    CASE resp.status = 0 ->
            IF tries # max_tries THEN RateOutcome(rem, k + 1, tries + 1)
            ELSE Raised(TransportFault)
      [] resp.status = 200 -> Returned(rem.rate)
      [] OTHER -> Raised(KeyErrorRate)

\* a fetched and decoded file: fetch_repo_content, then get_file_content
FileOutcome(rem, path, k) ==
    LET got == CallOutcome(rem, path, k, 1) IN
    IF got.res.ok THEN Outcome(get_file_content(got.res.value), got.k) ELSE got

\* build_directory_tree (prd, lines 72-111): the level's own lines and blocks in
\* listing order, then the trees of its directories in listing order.
\* rk is the number of the first request a leaf fetch of README.md makes.
RECURSIVE WalkOutcome(_, _, _, _)
RECURSIVE LevelOutcome(_, _, _, _)
RECURSIVE JoinOutcome(_, _, _, _)

LevelOutcome(rem, items, indent, rk) ==
    IF items = <<>> THEN Returned(<<>>)
    ELSE LET item == Head(items)
             rest == LevelOutcome(rem, Tail(items), indent, rk)
         IN IF IsExcluded(item.path) THEN rest
            ELSE IF item.type = "dir"
            THEN IF rest.ok THEN Returned(DirLine(indent, item.name) \o rest.value) ELSE rest
            ELSE IF ~IsAllowListed(item.name)
            THEN IF rest.ok THEN Returned(FileLine(indent, item.name) \o rest.value) ELSE rest
            ELSE LET file == FileOutcome(rem, item.path,
                                         IF item.path = ReadmePath THEN rk ELSE 1).res
                 IN IF ~file.ok THEN file
                    ELSE IF ~rest.ok THEN rest
                    ELSE Returned(FileLine(indent, item.name)
                                  \o ContentBlock(indent, file.value) \o rest.value)

JoinOutcome(rem, items, indent, rk) ==
    IF items = <<>> THEN Returned(<<>>)
    ELSE LET item == Head(items) IN
         IF IsExcluded(item.path) \/ item.type # "dir"
         THEN JoinOutcome(rem, Tail(items), indent, rk)
         ELSE LET child == WalkOutcome(rem, item.path, indent + 1, rk) IN
              IF ~child.ok THEN child
              ELSE LET rest == JoinOutcome(rem, Tail(items), indent, rk) IN
                   IF ~rest.ok THEN rest ELSE Returned(child.value \o rest.value)

WalkOutcome(rem, path, indent, rk) ==
    LET items == CallOutcome(rem, path, 1, 1).res IN
    IF ~items.ok THEN items
    ELSE LET level == LevelOutcome(rem, items.value, indent, rk) IN
         IF ~level.ok THEN level
         ELSE LET joined == JoinOutcome(rem, items.value, indent, rk) IN
              IF ~joined.ok THEN joined ELSE Returned(level.value \o joined.value)

\* retrieve_github_repo_info (prd, lines 114-161) for a valid locator
DocumentOf(rem, tok) ==
    IF tok = None
    THEN ReadmeDiagnostic(TokenRequired("fetching repo content"))
         \o TreeDiagnostic(TokenRequired("building directory tree"))
    ELSE LET rate == RateOutcome(rem, 1, 1) IN
         IF ~rate.ok THEN ReadmeDiagnostic(rate.exc) \o TreeDiagnostic(UnboundSemaphore)
         ELSE LET readme == FileOutcome(rem, ReadmePath, 1)
                  tree == WalkOutcome(rem, Root, 0, readme.k)
              IN (IF readme.res.ok THEN ReadmeBlock(readme.res.value)
                  ELSE ReadmeDiagnostic(readme.res.exc))
                 \o (IF tree.ok THEN TreeSection(tree.value) ELSE TreeDiagnostic(tree.exc))

----------------------------------------------------------------------------
(* Claims *)

\* C1: whatever the completion order of the sub-walks, the tree text that
\* build_directory_tree (repo2prompt_async_prd.py) returns is the text of the
\* sequential depth-first traversal in listing order: the descendants of a
\* directory directly follow the directory's line.
C1_TreeIsDepthFirst ==
    (program = "prd" /\ walk[Root].pc = "done")
        => walk[Root].tree_str = DepthFirst(remote, Root, 0)

\* the leaf fetches outstanding: a walk is between the issue of its leaf fetch
\* and that call's end, whatever the call is doing (request, backoff, sleep)
Outstanding == {t \in DOMAIN walk : walk[t].pc = "leaf" /\ fetch[t].phase # "idle"}

\* C2: in every state of a run of repo2prompt_async_prd.py, the leaf-content
\* fetches outstanding at the same time are never more than the capacity of
\* the semaphore.
C2_GateBound == program = "prd" => Cardinality(Outstanding) <= capacity

C2_Witness ==
    /\ program = "prd"
    /\ capacity = MaxCapacity
    /\ Cardinality(Outstanding) = capacity
    /\ \E t \in DOMAIN walk : walk[t].pc = "sem_wait"
    /\ \E t \in Outstanding : fetch[t].phase = "backoff"

\* C3: the document retrieve_github_repo_info (repo2prompt_async_prd.py)
\* returns is a function of the remote's responses and the inputs alone: it is
\* the same for every interleaving and completion order of the sub-walks and
\* fetches, and for every capacity of the semaphore.
C3_DocumentDeterminedByRemote ==
    (program = "prd" /\ outcome = "returned") => result.value = DocumentOf(remote, token)

\* a later sub-walk has ended before an earlier one, both with text to splice,
\* and the run has returned the tree
C3_Witness ==
    /\ program = "prd"
    /\ outcome = "returned"
    /\ walk[Root].pc = "done"
    /\ \E t \in DOMAIN walk : walk[t].overtook /\ walk[t].tree_str # <<>>

----------------------------------------------------------------------------
(* Claims about one call of fetch_repo_content (SpecFetch) *)

Target == a_py
TargetScript == ScriptOf(remote, Target)
Ended == outcome # "running"

\* the transport fails for the first n requests and answers 200 from then on
FailsThenAnswers(n) == TargetScript = Script(Times(Fault, n), R200)
AlwaysFails == TargetScript = Script(<<>>, Fault)

\* C4: a call whose transport fails exactly n <= 7 times and then answers 200
\* returns after exactly n+1 attempts; a call whose transport always fails
\* makes exactly 8 attempts and raises the transport fault.
C4_RetryBound ==
    (program = "fetch" /\ Ended) =>
        /\ \A n \in 0..(max_tries - 1) :
              FailsThenAnswers(n) =>
                  /\ outcome = "returned"
                  /\ result.value = Body(remote, Target)
                  /\ reqCount[Target] = n + 1
        /\ AlwaysFails =>
              /\ outcome = "raised"
              /\ result.exc = TransportFault
              /\ reqCount[Target] = max_tries

C4_Witness ==
    /\ program = "fetch"
    /\ FailsThenAnswers(max_tries - 1)
    /\ outcome = "returned"
    /\ reqCount[Target] = max_tries

\* C5: a 404 is not retried: the not-found fault reaches the caller after
\* exactly one request.
C5_NotFoundNotRetried ==
    (program = "fetch" /\ Response(remote, Target, 1).status = 404)
        => /\ reqCount[Target] <= 1
           /\ Ended => (outcome = "raised" /\ result.exc = ResourceNotFound)

\* the k-th response for the target carries Retry-After: <seconds>
AsksToWait(k) ==
    LET resp == Response(remote, Target, k) IN
    /\ resp.status \in {403, 429}
    /\ resp.retry_after \notin {None, ""}
    /\ IsInt(resp.retry_after)

\* C10: after a 403 or 429 with a Retry-After value, the request is reissued
\* only once that many seconds have passed, and when the remote answers the
\* reissue with 200 the call returns that body.
C10_RetryAfterHonoured ==
    [][/\ \A t \in DOMAIN fetch :
              (fetch[t].phase = "retry_after" /\ fetch'[t].phase = "inflight")
                  => /\ AsksToWait(fetch[t].k)
                     /\ fetch[t].slept >= IntOf(Response(remote, Target, fetch[t].k).retry_after)
                     /\ fetch'[t].k = fetch[t].k + 1
       /\ (program' = "fetch" /\ Ended')
              => \A k \in 1..reqCount'[Target] :
                    (AsksToWait(k) /\ Response(remote, Target, k + 1) = R200)
                        => (outcome' = "returned" /\ result'.value = Body(remote, Target))
      ]_vars

C10_Witness ==
    /\ program = "fetch"
    /\ TargetScript = Script(<<Limited(403, ToString(MaxRetryAfter))>>, R200)
    /\ outcome = "returned"
    /\ result.value = Body(remote, Target)
    /\ reqCount[Target] = 2

----------------------------------------------------------------------------
(* Claims about a whole run (Spec) *)

\* ".github" stands in the path between separators (or the path's ends)
HasMarkerSegment(path) ==
    \E n \in 1..Len(path) :
        /\ path[n] = ".github"
        /\ n = 1 \/ path[n - 1] = "/"
        /\ n = Len(path) \/ path[n + 1] = "/"

\* C6: in both programs no request is issued for a path with a ".github"
\* segment, and no tree line is written for such an entry or a descendant.
C6_MarkerNeverFetched ==
    \A path \in issued \cup emitted : ~HasMarkerSegment(path)

\* a run over the repository with .github at the root and under sub/ has
\* walked sub/ and returned
C6_Witness ==
    /\ program = "prd"
    /\ outcome = "returned"
    /\ walk[Root].pc = "done"
    /\ \E item \in SeqToSet(walk[Root].items) : HasMarkerSegment(item.path)
    /\ \E t \in DOMAIN walk :
          /\ t # Root
          /\ walk[t].pc = "done"
          /\ \E item \in SeqToSet(walk[t].items) : HasMarkerSegment(item.path)

\* the README fetch of this run and the fetches of its walk, as the remote
\* answers them
ReadmeAsked == reqCount[ReadmePath] > 0
ReadmeOutcome == FileOutcome(remote, ReadmePath, 1).res
TreeOutcome == WalkOutcome(remote, Root, 0, FileOutcome(remote, ReadmePath, 1).k)

\* every entry the walk has to show: not under the marker
Shown(listing) ==
    {e.path : e \in {e \in UNION {SeqToSet(listing[d]) : d \in DOMAIN listing} :
                        ~HasMarkerSegment(e.path)}}

\* C7: README failure and tree failure are independent
\* (repo2prompt_async_prd.py).  When the README fetch fails and the walk
\* succeeds, the document is the README diagnostic followed by the tree section
\* with a line for every entry; when the README succeeds and the walk fails,
\* the document is the README block followed by the tree diagnostic.
C7_IndependentFailures ==
    (program = "prd" /\ outcome = "returned" /\ ReadmeAsked) =>
        /\ (~ReadmeOutcome.ok /\ TreeOutcome.ok) =>
              /\ walk[Root].pc = "done"
              /\ result.value = ReadmeDiagnostic(ReadmeOutcome.exc)
                                    \o TreeSection(walk[Root].tree_str)
              /\ emitted = Shown(remote.listing)
        /\ (ReadmeOutcome.ok /\ ~TreeOutcome.ok) =>
              /\ walk[Root].pc = "failed"
              /\ result.value = ReadmeBlock(ReadmeOutcome.value)
                                    \o TreeDiagnostic(walk[Root].exc)

C7_Witness ==
    /\ program = "prd"
    /\ outcome = "returned"
    /\ ReadmeAsked
    /\ ReadmeOutcome = Raised(ResourceNotFound)
    /\ walk[Root].pc = "done"
    /\ Cardinality(emitted) >= 3

\* C8: once the locator is valid, retrieve_github_repo_info returns a document
\* and never raises, whatever fails in the walk.
C8_NeverRaises == outcome = "raised" => ~parse_github_url(url).ok

\* the allow-listed files with a line in the tree, in the order of their lines
RECURSIVE FilesInTreeOrder(_, _)
RECURSIVE FilesOfItems(_, _)

FilesOfItems(rem, items) ==
    IF items = <<>> THEN <<>>
    ELSE LET item == Head(items)
             here == IF HasMarkerSegment(item.path) THEN <<>>
                     ELSE IF item.type = "dir" THEN FilesInTreeOrder(rem, item.path)
                     ELSE IF IsAllowListed(item.name) THEN <<item.path>>
                     ELSE <<>>
         IN here \o FilesOfItems(rem, Tail(items))

FilesInTreeOrder(rem, path) == FilesOfItems(rem, rem.listing[path])

RECURSIVE BlocksOf(_, _)
BlocksOf(rem, paths) ==
    IF paths = <<>> THEN <<>>
    ELSE <<"\n", Fence>> \o get_file_content(Body(rem, Head(paths))).value \o <<Fence, "\n">>
         \o BlocksOf(rem, Tail(paths))

\* what follows the tree section in the document
AfterTree(text, tree) ==
    LET at == CHOOSE n \in 1..Len(text) : text[n] = "Directory Structure:\n" IN
    SubSeq(text, at + Len(tree) + 2, Len(text))

\* C9: after a successful run of repo2prompt_async.py the document holds,
\* after the tree section, one fenced block for every allow-listed file with
\* a line in the tree, at every depth, in the order of the lines.
C9_BlockPerListedFile ==
    (program = "async" /\ outcome = "returned") =>
        AfterTree(result.value, walk[Root].tree_str)
            = BlocksOf(remote, FilesInTreeOrder(remote, Root))

----------------------------------------------------------------------------
(* Claims about termination of one call (FairSpecFetch) *)

\* from some request on the remote throttles the target: every request is
\* answered, with 403 or 429 and a Retry-After number of seconds
ThrottlesInTheEnd ==
    /\ TargetScript.fin.status \in {403, 429}
    /\ TargetScript.fin.retry_after \notin {None, ""}
    /\ IsInt(TargetScript.fin.retry_after)

\* the remote throttles from the first request on
ThrottledForEver == TargetScript.pre = <<>> /\ ThrottlesInTheEnd

\* C11: when the remote answers every request, a call of fetch_repo_content
\* (repo2prompt_async_prd.py) eventually ends: it returns, or it raises once its
\* retries are exhausted, or it raises a fault that is not retried.
C11_EveryCallEnds == (program = "fetch") ~> Ended

\* against the remote that throttles for ever the call is never over: every
\* answer leads to the sleep and to the reissue of line 54, a new call with a
\* new retry loop
ThrottledCallNeverEnds == (program = "fetch" /\ ThrottledForEver) => ~Ended

\* every other call of the model ends
OtherCallsEnd == (program = "fetch" /\ ~ThrottlesInTheEnd) ~> Ended

----------------------------------------------------------------------------
(* Claims about the Rate Guard (Spec) *)

\* the quota answers the run has received
QuotaAnswers ==
    Cardinality({k \in 1..reqCount[RateUrl] :
                    /\ Response(remote, RateUrl, k).status = 200
                    /\ ~(fetch[Root].fn = "rate" /\ fetch[Root].phase = "inflight"
                          /\ fetch[Root].k = k)})

\* the quota is nearly used up and its reset lies ahead
QuotaLowBeforeReset == remote.rate.remaining < 100 /\ remote.rate.reset > 0

FirstContentsRequest == issued = {} /\ issued' # {}

\* C12: the Rate Guard of repo2prompt_async_prd.py is a one-shot gate before
\* the traversal.  The quota is asked for only before the first contents
\* request and is answered once; when remaining < 100 and the reset is ahead,
\* the first contents request (README, listing or leaf) is issued only when the
\* sleep up to the reset is over; otherwise it is issued in the very step that
\* receives the quota, without any sleep.
C12_OneShotGuard ==
    [][program = "prd" =>
          /\ reqCount'[RateUrl] # reqCount[RateUrl] => (issued = {} /\ mpc \in {"start", "rate"})
          /\ issued' # {} => (reqCount'[RateUrl] = reqCount[RateUrl] /\ QuotaAnswers' = 1)
          /\ mpc' = "guard_sleep" => (issued' = {} /\ QuotaLowBeforeReset)
          /\ (FirstContentsRequest /\ QuotaLowBeforeReset) =>
                 /\ mpc = "guard_sleep"
                 /\ fetch[Root].slept >= remote.rate.reset
          /\ (FirstContentsRequest /\ ~QuotaLowBeforeReset) => mpc = "rate"
      ]_vars

\* the quota was low, the guard has slept and the README request is out
C12_Witness ==
    /\ program = "prd"
    /\ remote.rate = RateLow
    /\ mpc = "readme"
    /\ issued = {ReadmePath}
    /\ reqCount[RateUrl] = 1

----------------------------------------------------------------------------
(* Claims about the locator (Spec) *)

NoRequestSent == \A p \in DOMAIN reqCount : reqCount[p] = 0

\* C13: parse_github_url either gives an owner and a name that are both
\* non-empty or raises the validation fault, and when it raises,
\* retrieve_github_repo_info ends with that fault before any request is sent.
C13_LocatorValidated ==
    LET parsed == parse_github_url(url) IN
    mpc # "start" =>
        IF parsed.ok THEN parsed.value[1] # <<>> /\ parsed.value[2] # <<>>
        ELSE outcome = "raised" /\ result.exc = InvalidUrl /\ NoRequestSent

----------------------------------------------------------------------------
(* Claims about the semaphore (Spec) *)

\* the walks inside "async with semaphore", and those a token was handed to
\* while they queued
TokenHolders == {t \in DOMAIN walk : walk[t].pc = "leaf"} \cup sem.granted

\* the walks at a leaf fetch: queued for a token, or holding one
AtLeafFetch == {t \in DOMAIN walk : walk[t].pc \in {"sem_wait", "leaf"}}

\* C14: in repo2prompt_async_prd.py a token taken for a leaf fetch is given
\* back on every exit of that fetch, success or failure: the free tokens and
\* the tokens of the leaf fetches in progress always add up to the capacity,
\* and whenever no leaf fetch is in progress every token is free.
C14_TokensReleased ==
    (program = "prd" /\ sem.bound) =>
        /\ sem.value + Cardinality(TokenHolders) = capacity
        /\ AtLeafFetch = {} => sem.value = capacity

\* a leaf fetch has failed after its retries were exhausted, the walks have
\* ended and the only token is free again
C14_Witness ==
    /\ program = "prd"
    /\ capacity = 1
    /\ outcome = "returned"
    /\ \E p \in FilePaths(remote.listing) \ {ReadmePath} : reqCount[p] = max_tries
    /\ \E t \in DOMAIN walk : walk[t].pc = "failed" /\ walk[t].exc = TransportFault
    /\ \A t \in DOMAIN walk : walk[t].pc \in {"none", "done", "failed"}
    /\ sem.value = capacity

\* the call of t is in a backoff delay or in a Retry-After sleep
Sleeping(t) == fetch[t].phase \in {"backoff", "retry_after"}

\* the walks whose next step is the request of a leaf fetch, and that cannot
\* take it for want of a token
HeldAtGate == {t \in DOMAIN walk : walk[t].pc = "sem_wait" /\ t \notin sem.granted}

\* every token is with a leaf fetch that sleeps
GateHeldBySleepers ==
    /\ sem.bound
    /\ sem.value = 0
    /\ sem.granted = {}
    /\ \A h \in DOMAIN walk : walk[h].pc = "leaf" => Sleeping(h)

\* C15: a fetch that sleeps (backoff or Retry-After) holds up its own call
\* chain only: no other walk of repo2prompt_async_prd.py is kept from issuing
\* its next request, a leaf fetch that needs a token included, by tokens that
\* are all with sleeping fetches, whatever the capacity.
C15_SleepBlocksOwnChainOnly ==
    program = "prd" => ~(GateHeldBySleepers /\ HeldAtGate # {})

----------------------------------------------------------------------------
(* Claims about the progress of the walk (FairSpecWalk) *)

\* the remote answers every request with 200 in the end, and every file
\* object decodes
AllAnswered200 ==
    /\ \A p \in DOMAIN remote.script : remote.script[p] \in {Ok} \cup Recovers
    /\ \A p \in DOMAIN remote.kind : remote.kind[p] \in {"base64", "none"}

\* the walks that were called or spawned
Walked == {t \in DOMAIN walk : walk[t].pc # "none"}

WalkComplete ==
    /\ outcome = "returned"
    /\ walk[Root].pc = "done"
    /\ \A t \in Walked : walk[t].pc = "done"
    /\ \A t \in DOMAIN walk : ~HasMarkerSegment(t) => t \in Walked
    /\ sem.value = capacity

\* C16: the walk of repo2prompt_async_prd.py does not deadlock, for every
\* capacity >= 1: when every request is answered with 200, every spawned
\* sub-walk and the root walk eventually complete, the run returns, and all
\* tokens are free in the end.
C16_WalkCompletes ==
    (program = "prd" /\ token # None /\ parse_github_url(url).ok /\ AllAnswered200)
        ~> WalkComplete

\* at capacity 1: the root waits at line 110 for a sub-walk that queues for the
\* token another walk holds
C16_Witness ==
    /\ program = "prd"
    /\ AllAnswered200
    /\ capacity = 1
    /\ walk[Root].pc = "join"
    /\ \E c \in DOMAIN walk : walk[c].pc = "sem_wait" /\ walk[c].parent = Root
    /\ \E h \in DOMAIN walk : walk[h].pc = "leaf"

----------------------------------------------------------------------------
(* Claims about the session (Spec) *)

\* the build_directory_tree tasks that were created and have not ended
PendingWalks == {t \in DOMAIN walk : walk[t].pc \notin {"none", "done", "failed"}}

\* the calls with a request out, or asleep before their next request
PendingFetches == {t \in DOMAIN fetch : fetch[t].phase # "idle"}

\* retrieve_github_repo_info has left "async with aiohttp.ClientSession()"
SessionClosed == outcome = "returned"

\* C17: when retrieve_github_repo_info (repo2prompt_async_prd.py) leaves the
\* session scope, no build_directory_tree task spawned during the run is still
\* pending and no request is outstanding, also when the root walk failed early.
C17_NoTaskOutlivesSession ==
    (program = "prd" /\ SessionClosed) => (PendingWalks = {} /\ PendingFetches = {})

----------------------------------------------------------------------------
(* Claims about the retry budget of one call (SpecFetch) *)

\* an answer that makes the attempt end in a fault: no response at all, 404,
\* or 403/429 without Retry-After
FaultyAnswer(resp) ==
    \/ resp.status \in {0, 404}
    \/ resp.status \in {403, 429} /\ resp.retry_after \in {None, ""}

\* the attempts of the call that have ended in a fault so far
FaultsOfCall ==
    Cardinality({k \in 1..reqCount[Target] :
                    /\ FaultyAnswer(Response(remote, Target, k))
                    /\ ~(fetch[Root].phase = "inflight" /\ fetch[Root].k = k)})

\* C18: over one top-level call of fetch_repo_content
\* (repo2prompt_async_prd.py), the reissues after 403/429 with Retry-After
\* included, at most 8 attempts end in a fault before the call returns or
\* lets the fault out.
C18_OneBudgetPerCall == program = "fetch" => FaultsOfCall <= max_tries

----------------------------------------------------------------------------
(* Claims about a failed quota query (Spec) *)

\* every listing and every leaf fetch succeeds: only the quota query is
\* scripted, and every file object decodes
ContentsAllSucceed ==
    /\ DOMAIN remote.script \subseteq {RateUrl}
    /\ \A p \in DOMAIN remote.kind : remote.kind[p] \in {"base64", "none"}
    /\ WalkOutcome(remote, Root, 0, 1).ok

\* C19: whatever the outcome of the quota query, when every listing and leaf
\* fetch succeeds the document retrieve_github_repo_info
\* (repo2prompt_async_prd.py) returns ends with the 'Directory Structure:'
\* section holding the full tree.
C19_WalkDespiteQuotaFailure ==
    (/\ program = "prd"
     /\ token # None
     /\ parse_github_url(url).ok
     /\ ContentsAllSucceed
     /\ outcome = "returned")
        => EndsWith(result.value, {TreeSection(WalkOutcome(remote, Root, 0, 1).value)})

====
